---------------------------- MODULE Spec2Model ----------------------------
(***************************************************************************)
(* Dolphinoko <-> Blender remote-command protocol.                         *)
(*                                                                         *)
(* Server side: src/assets/blender/addon.py (socket_server_function, the   *)
(* command_handlers table and the handlers).  Client side:                 *)
(* src/backend/services/blender_mcp_service.py (BlenderMCPService).        *)
(*                                                                         *)
(* Bytes on the wire are modelled one symbol per syntactic unit of the     *)
(* JSON text, so that framing (newline search, strip, whole-buffer parse)  *)
(* is computed on a real byte sequence:                                    *)
(*   "{" "}"        object braces                                          *)
(*   "G" "D" ...    the "type" member, one symbol per command name         *)
(*   "n" "o" "t"    the members of "params" (name, object_name,            *)
(*                  material_name), each with a non-empty value            *)
(*   "0"            "params": null                                         *)
(*   "[" "]"        a JSON array                                           *)
(*   "x"            a byte that is valid UTF-8 but no JSON                 *)
(*   "U"            a byte that is not valid UTF-8                         *)
(*   NL             the newline delimiter                                  *)
(***************************************************************************)
EXTENDS Integers, Sequences, FiniteSets, TLC

NL == "\n"

(* Bounds of the model *)
MaxSends == 2      \* fragments written by raw clients during a run
MaxCommands == 2   \* messages written by the connector during a run
MaxConns == 2      \* connections of raw clients accepted during a run
MaxSessions == 1   \* connections of the connector accepted during a run
MaxCalls == 3      \* calls made on the client connector during a run
MaxInserts == 12   \* history insertions between two clears
MaxPanelOps == 3   \* calls of start_server and stop_server during a run
MaxQueued == 2     \* connections, and messages written, when clients queue

-----------------------------------------------------------------------------
(* The command registry *)

command_handlers ==
    { "get_scene_info", "get_objects", "get_materials", "create_object",
      "delete_object", "modify_object", "create_material", "assign_material",
      "execute_blender_code", "set_camera", "set_lighting",
      "modify_active_object", "natural_language" }

(* Wire symbol of a command name.  poly_haven and hyper3d are sent by the  *)
(* client connector but are not registered on the server.                  *)
TypeSym ==
    [ get_objects          |-> "G",
      delete_object        |-> "D",
      modify_object        |-> "M",
      create_material      |-> "C",
      assign_material      |-> "A",
      modify_active_object |-> "V",
      poly_haven           |-> "P" ]

TypeNames == DOMAIN TypeSym
TypeSyms  == { TypeSym[t] : t \in TypeNames }
NameOfSym(b) == CHOOSE t \in TypeNames : TypeSym[t] = b

Fields == { "name", "object_name", "material_name" }
FieldSym == [ name |-> "n", object_name |-> "o", material_name |-> "t" ]
FieldOrder == << "name", "object_name", "material_name" >>


-----------------------------------------------------------------------------
(* Wire codec *)

(* A decoded JSON document: an object with its "type" member and its      *)
(* "params" member (absent, null, or an object with the given keys), an    *)
(* array, or a JSONDecodeError.                                            *)
JsonError == [ kind |-> "error", type |-> "None", pkind |-> "absent", keys |-> {} ]
JsonArray == [ kind |-> "array", type |-> "None", pkind |-> "absent", keys |-> {} ]
JsonObject(t, pk, ks) == [ kind |-> "object", type |-> t, pkind |-> pk, keys |-> ks ]

IsFieldSeq(s) == \A i \in 1..Len(s) : \E f \in Fields : s[i] = FieldSym[f]
FieldSet(s) == { f \in Fields : \E i \in 1..Len(s) : s[i] = FieldSym[f] }

LoadsParams(t, rest) ==
    IF rest = << >> THEN JsonObject(t, "absent", {})
    ELSE IF rest = << "0" >> THEN JsonObject(t, "null", {})
    ELSE IF IsFieldSeq(rest) THEN JsonObject(t, "dict", FieldSet(rest))
    ELSE JsonError

(* json.loads on the whole text: one document, nothing after it *)
Loads(s) ==
    IF s = << "[", "]" >> THEN JsonArray
    ELSE IF Len(s) >= 2 /\ s[1] = "{" /\ s[Len(s)] = "}"
    THEN LET inner == SubSeq(s, 2, Len(s) - 1) IN
         IF inner # << >> /\ inner[1] \in TypeSyms
         THEN LoadsParams(NameOfSym(inner[1]), Tail(inner))
         ELSE LoadsParams("None", inner)
    ELSE JsonError

(* str.strip(): leading and trailing whitespace removed *)
RECURSIVE StripLeft(_)
StripLeft(s) == IF s # << >> /\ s[1] = NL THEN StripLeft(Tail(s)) ELSE s

RECURSIVE StripRight(_)
StripRight(s) ==
    IF s # << >> /\ s[Len(s)] = NL THEN StripRight(SubSeq(s, 1, Len(s) - 1)) ELSE s

Strip(s) == StripRight(StripLeft(s))

(* bytes.decode('utf-8') raises UnicodeDecodeError on an invalid byte *)
DecodeFails(s) == \E i \in 1..Len(s) : s[i] = "U"

EndsWithNL(s) == s # << >> /\ s[Len(s)] = NL

HasNewline(s) == \E i \in 1..Len(s) : s[i] = NL

EncodeParams(p) ==
    LET syms == [ i \in 1..Len(FieldOrder) |-> FieldSym[FieldOrder[i]] ]
        keep(b) == \E f \in p : FieldSym[f] = b
    IN  SelectSeq(syms, keep)

(* BlenderMCPService.send_command: command = {"type": t}; params added     *)
(* only when truthy; json.dumps(command) + "\n"                            *)
Encode(t, p) ==
    << "{", TypeSym[t] >> \o (IF p # {} THEN EncodeParams(p) ELSE << >>) \o << "}", NL >>

(* command.get("params", {}): the default applies only to a missing key *)
ParamsOf(doc) ==
    IF doc.pkind = "null" THEN [ isDict |-> FALSE, keys |-> {} ]
    ELSE [ isDict |-> TRUE, keys |-> doc.keys ]

-----------------------------------------------------------------------------
(* Server state (module globals and the locals of socket_server_function)  *)
(* and the transport between one client and the server.                    *)

VARIABLES
    pc,               \* position of the server worker in socket_server_function
    client_socket,    \* the global client_socket: "None", "open", or
                      \* "closed" (closed by stop_server, still referenced)
    data,             \* bytes accumulated by the receive loop
    command_type,     \* the local command_type; "unset" until first assigned
    response,         \* the local response about to be sent
    command_history,  \* newest first, the "command" field of each entry
    last_error,       \* the last_error slot: command and error
    scene,            \* host application state (bpy.data)
    hostMutations,    \* number of mutating calls made on bpy
    wire,             \* bytes written by the client, not yet received
    peerClosed,       \* the client has closed its end
    rst,              \* the connection is reset: send and recv raise
    nConn,            \* connections accepted so far
    nSends,           \* fragments written by clients so far
    clientKind,       \* "raw": any fragments at any time; "connector": one
                      \* whole message at a time, as BlenderMCPService does
    chunks,           \* recv calls that returned bytes for the current message
    cycles            \* one record per message taken on this connection

serverVars == << pc, client_socket, data, command_type, response,
                 command_history, last_error, scene, hostMutations, wire,
                 peerClosed, rst, nConn, nSends, clientKind, chunks, cycles >>

(* Client connector state (BlenderMCPService) and its transport *)
VARIABLES
    connected,        \* self.connected
    sock,             \* self.socket: "None", "unconnected", "open", "closed"
    cpc,              \* position inside send_command: "idle", "send", "recv"
    response_data,    \* bytes accumulated by the receive loop of send_command
    inbox,            \* bytes written by the server, not yet received
    link,             \* the connection: "none", "up", "closed" (by the
                      \* server), "reset"
    listening,        \* a server is listening on host:port
    pending,          \* the server holds a command it has not answered
    cur,              \* the call in progress
    calls             \* one record per finished call of the connector

clientVars == << connected, sock, cpc, response_data, inbox, link, listening,
                 pending, cur, calls >>

(* The add-on outside the worker thread: panel operators and bookkeeping *)
VARIABLES
    inserted,         \* every entry given to add_to_command_history since
                      \* the history was last cleared, newest first (kept
                      \* by the history operations of SpecHistory)
    is_server_running, \* the global flag
    server_socket,    \* the global server_socket: "None", "listening", "closed"
    server_thread,    \* the global server_thread: "None", "alive", "dead"
    backlog,          \* connections completed by the operating system and
                      \* not yet accepted: the bytes each has written
    spc,              \* position inside stop_server: "idle", "close_client",
                      \* "close_server", "join"
    stops,            \* one record per call of stop_server
    starts            \* one record per call of start_server

hostVars == << inserted, backlog, is_server_running, server_socket,
               server_thread, spc, stops, starts >>

(* One call of handle_natural_language *)
VARIABLES
    text,             \* params["text"], a sequence of characters
    nl                \* the call: the branch taken, the code generated, the
                      \* objects its execution created, the Response

nlVars == << text, nl >>

(* The calls of add_to_command_history and clear_command_history in        *)
(* progress, per thread *)
VARIABLE
    threads           \* per thread: the statement it is at and its local
                      \* value; which thread wrote the history or the
                      \* error slot last

vars == << serverVars, clientVars, hostVars, nlVars, threads >>

MAX_HISTORY_ITEMS == 10

(* Mutant: the head is dropped beyond N, so the oldest entries are kept *)
add_to_command_history_keeps_oldest(hist, command) ==
    LET h == << command >> \o hist IN
    IF Len(h) > MAX_HISTORY_ITEMS THEN SubSeq(h, 2, Len(h)) ELSE h

(* add_to_command_history: insert at the head, drop the tail beyond N *)
add_to_command_history(hist, command) ==
    LET h == << command >> \o hist IN
    IF Len(h) > MAX_HISTORY_ITEMS THEN SubSeq(h, 1, MAX_HISTORY_ITEMS) ELSE h

(* save_error: the slot is overwritten *)
save_error(command, error) == [ command |-> command, error |-> error ]

NoError == [ command |-> "", error |-> << >> ]

Success(body) == [ status |-> "success", body |-> body ]
Error(message) == [ status |-> "error", body |-> message ]
NoResponse == [ status |-> "none", body |-> << >> ]

-----------------------------------------------------------------------------
(* Handlers.  A handler is given params and the scene; it returns a        *)
(* Response or raises, may mutate the scene, and appends history entries.  *)
(* The value of every name parameter is "Cube" for an object and "Mat"     *)
(* for a material.                                                         *)

Returns(resp, sc, mut, hist) ==
    [ raised |-> FALSE, exc |-> << >>, resp |-> resp, scene |-> sc,
      mut |-> mut, hist |-> hist ]

Raises(exc, sc) ==
    [ raised |-> TRUE, exc |-> exc, resp |-> NoResponse, scene |-> sc,
      mut |-> 0, hist |-> << >> ]

(* params.get(...) on a params that is not a mapping *)
AttributeError == << "'NoneType' object has no attribute 'get'" >>
ListAttributeError == << "'list' object has no attribute 'get'" >>
UnicodeDecodeError == << "'utf-8' codec can't decode byte" >>

ObjectNameRequired == << "Object name is required" >>
MaterialNameRequired == << "Material name is required" >>
NotFound(kind, name) == << kind, " '", name, "' not found" >>

handle_get_scene_info(params, sc) ==
    Returns(Success(<< "scene_info" >>), sc, 0, << "get_scene_info" >>)

handle_get_objects(params, sc) ==
    Returns(Success(<< "objects" >>), sc, 0, << "get_objects" >>)

handle_get_materials(params, sc) ==
    Returns(Success(<< "materials" >>), sc, 0, << "get_materials" >>)

handle_delete_object(params, sc) ==
    IF ~params.isDict THEN Raises(AttributeError, sc)
    ELSE IF "name" \notin params.keys
    THEN Returns(Error(ObjectNameRequired), sc, 0, << "delete_object" >>)
    ELSE IF ~sc.hasCube
    THEN Returns(Error(NotFound("Object", "Cube")), sc, 0, << "delete_object" >>)
    ELSE Returns(Success(<< "deleted", "Cube" >>),
                 [ sc EXCEPT !.hasCube = FALSE, !.matOnCube = FALSE ], 1,
                 << "delete_object" >>)

(* Only name is given: no location, size, rotation or colour is applied *)
handle_modify_object(params, sc) ==
    IF ~params.isDict THEN Raises(AttributeError, sc)
    ELSE IF "name" \notin params.keys
    THEN Returns(Error(ObjectNameRequired), sc, 0, << "modify_object" >>)
    ELSE IF ~sc.hasCube
    THEN Returns(Error(NotFound("Object", "Cube")), sc, 0, << "modify_object" >>)
    ELSE Returns(Success(<< "modified", "Cube" >>), sc, 0, << "modify_object" >>)

handle_create_material(params, sc) ==
    IF ~params.isDict THEN Raises(AttributeError, sc)
    ELSE IF "name" \notin params.keys
    THEN Returns(Error(MaterialNameRequired), sc, 0, << "create_material" >>)
    ELSE Returns(Success(<< "created", "Mat" >>),
                 [ sc EXCEPT !.hasMat = TRUE ], 1, << "create_material" >>)

(* Mutant: material_name is not validated before use *)
handle_assign_material_unchecked(params, sc) ==
    IF ~params.isDict THEN Raises(AttributeError, sc)
    ELSE IF "object_name" \notin params.keys
    THEN Returns(Error(ObjectNameRequired), sc, 0, << "assign_material" >>)
    ELSE IF ~sc.hasCube
    THEN Returns(Error(NotFound("Object", "Cube")), sc, 0, << "assign_material" >>)
    ELSE IF ~sc.hasMat \/ "material_name" \notin params.keys
    THEN Returns(Error(NotFound("Material", "Mat")), sc, 0, << "assign_material" >>)
    ELSE Returns(Success(<< "assigned", "Cube", "Mat" >>),
                 [ sc EXCEPT !.matOnCube = TRUE ], 1, << "assign_material" >>)

handle_assign_material(params, sc) ==
    IF ~params.isDict THEN Raises(AttributeError, sc)
    ELSE IF "object_name" \notin params.keys
    THEN Returns(Error(ObjectNameRequired), sc, 0, << "assign_material" >>)
    ELSE IF "material_name" \notin params.keys
    THEN Returns(Error(MaterialNameRequired), sc, 0, << "assign_material" >>)
    ELSE IF ~sc.hasCube
    THEN Returns(Error(NotFound("Object", "Cube")), sc, 0, << "assign_material" >>)
    ELSE IF ~sc.hasMat
    THEN Returns(Error(NotFound("Material", "Mat")), sc, 0, << "assign_material" >>)
    ELSE Returns(Success(<< "assigned", "Cube", "Mat" >>),
                 [ sc EXCEPT !.matOnCube = TRUE ], 1, << "assign_material" >>)

(* No history entry; with a name the selection code runs in the operator   *)
(* (deselect all, select the object) and its result is returned as success *)
handle_modify_active_object(params, sc) ==
    IF ~params.isDict THEN Raises(AttributeError, sc)
    ELSE IF "name" \notin params.keys
    THEN Returns(Error(ObjectNameRequired), sc, 0, << >>)
    ELSE Returns(Success(IF sc.hasCube THEN << "None" >>
                                ELSE NotFound("Object", "Cube")),
                 sc, 1, << >>)

(* command_handlers[command_type](params) *)
CallHandler(t, params, sc) ==
    CASE t = "get_scene_info"       -> handle_get_scene_info(params, sc)
      [] t = "get_objects"          -> handle_get_objects(params, sc)
      [] t = "get_materials"        -> handle_get_materials(params, sc)
      [] t = "delete_object"        -> handle_delete_object(params, sc)
      [] t = "modify_object"        -> handle_modify_object(params, sc)
      [] t = "create_material"      -> handle_create_material(params, sc)
      [] t = "assign_material"      -> handle_assign_material(params, sc)
      [] t = "modify_active_object" -> handle_modify_active_object(params, sc)

RECURSIVE AddAll(_, _)
AddAll(hist, entries) ==
    IF entries = << >> THEN hist
    ELSE AddAll(add_to_command_history(hist, Head(entries)), Tail(entries))

-----------------------------------------------------------------------------
(* One iteration of the per-client loop, after the receive loop: decode,   *)
(* parse, dispatch, and the except clauses up to the point of the send.    *)

(* Mutant: the message does not name the type *)
UnknownCommandUnnamed(t) == << "Unknown command" >>

UnknownCommand(t) == << "Unknown command: ", t >>

Outcome(path, ctype, doctype, invoked, raised, resp, sc, mut, hist, err) ==
    [ path |-> path, ctype |-> ctype, doctype |-> doctype, invoked |-> invoked,
      raised |-> raised, resp |-> resp, scene |-> sc, mut |-> mut,
      hist |-> hist, err |-> err ]

(* except Exception: command_type is whatever the local holds by now *)
ExceptionOutcome(exc, ctype, doctype, invoked, sc, mut, hist) ==
    Outcome("exception", ctype, doctype, invoked, invoked, Error(exc), sc, mut,
            hist \o << "command_error" >>,
            save_error(IF ctype = "unset" THEN "unknown" ELSE ctype,
                       << "Error: " >> \o exc))

(* except json.JSONDecodeError *)
JsonErrorOutcome(ctype, sc) ==
    Outcome("json_error", ctype, "none", FALSE, FALSE,
            Error(<< "Invalid JSON format" >>), sc, 0, << "json_error" >>,
            save_error("json_error", << "Invalid JSON" >>))

ProcessMessage(d, ctype, sc, err) ==
    IF DecodeFails(d)
    THEN ExceptionOutcome(UnicodeDecodeError, ctype, "none", FALSE, sc, 0, << >>)
    ELSE LET doc == Loads(Strip(d)) IN
         IF doc.kind = "error" THEN JsonErrorOutcome(ctype, sc)
         ELSE IF doc.kind = "array"
         THEN ExceptionOutcome(ListAttributeError, ctype, "none", FALSE, sc, 0, << >>)
         ELSE IF doc.type \in command_handlers
         THEN LET r == CallHandler(doc.type, ParamsOf(doc), sc) IN
              IF r.raised
              THEN ExceptionOutcome(r.exc, doc.type, doc.type, TRUE, r.scene,
                                    r.mut, r.hist)
              ELSE Outcome("ok", doc.type, doc.type, TRUE, FALSE, r.resp,
                           r.scene, r.mut, r.hist, err)
         ELSE Outcome("ok", doc.type, doc.type, FALSE, FALSE,
                      Error(UnknownCommand(doc.type)), sc, 0,
                      << "unknown_command" >>,
                      save_error("unknown_command", UnknownCommand(doc.type)))

(* Mutant: the receive loop stops after the first chunk *)
FrameCompleteAfterAnyChunk(d) == d # << >>

(* while not data.endswith(b"\n") *)
FrameComplete(d) == EndsWithNL(d)

-----------------------------------------------------------------------------
(* What clients write.  A raw client writes any of these fragments at any  *)
(* time; the connector writes one whole message and waits for the answer.  *)

RawFragments ==
    { Encode("get_objects", {}),
      << "{", "D", "n", "}" >>,            \* delete_object, without its newline
      << NL >>,
      << "x", NL >>,
      << "[", "]", NL >> }

ConnectorCommands ==
    { << "get_objects", {} >>, << "poly_haven", {} >>,
      << "delete_object", {} >>, << "delete_object", {"name"} >>,
      << "modify_object", {} >>,
      << "create_material", {} >>,
      << "assign_material", {} >>, << "assign_material", {"object_name"} >>,
      << "assign_material", {"material_name"} >>,
      << "modify_active_object", {} >> }

ConnectorFragments ==
    { Encode(c[1], c[2]) : c \in ConnectorCommands }
      \cup { << "x", NL >>,
             << "{", "V", "0", "}", NL >> }          \* "params": null

(* what a client writes while the server is started and stopped *)
PanelFragments ==
    { Encode("get_objects", {}), << "x", NL >>, << "[", "]", NL >> }

Fragments(kind) ==
    CASE kind = "raw"       -> RawFragments
      [] kind = "connector" -> ConnectorFragments
      [] kind = "panel"     -> PanelFragments
      [] kind = "queue"     -> PanelFragments

-----------------------------------------------------------------------------
(* Initial state: the worker has bound and listened and is about to accept *)

InitScene == [ hasCube |-> TRUE, hasMat |-> FALSE, matOnCube |-> FALSE ]

InitCommon ==
    /\ pc = "accept"
    /\ client_socket = "None"
    /\ data = << >>
    /\ command_type = "unset"
    /\ response = NoResponse
    /\ command_history = << "server_start" >>
    /\ last_error = NoError
    /\ scene = InitScene
    /\ hostMutations = 0
    /\ wire = << >>
    /\ peerClosed = FALSE
    /\ rst = FALSE
    /\ nConn = 0
    /\ nSends = 0
    /\ chunks = 0
    /\ cycles = << >>

NoCall == [ op |-> "none", wasConnected |-> FALSE, connects |-> 0,
            connectOk |-> TRUE, wrote |-> FALSE ]

InitClient ==
    /\ connected = FALSE
    /\ sock = "None"
    /\ cpc = "idle"
    /\ response_data = << >>
    /\ inbox = << >>
    /\ link = "none"
    /\ listening = FALSE
    /\ pending = FALSE
    /\ cur = NoCall
    /\ calls = << >>

(* the server has been started and its worker is about to accept *)
NoTranslation ==
    [ called |-> FALSE, branch |-> "none", commands |-> << >>,
      created |-> << >>, resp |-> NoResponse, raised |-> FALSE ]

InitText ==
    /\ text = << >>
    /\ nl = NoTranslation

(* no thread is inside add_to_command_history or clear_command_history *)
NoFrame == [ pc |-> "idle", sliced |-> << >>, code |-> "None" ]

InitThreads ==
    threads = [ worker |-> NoFrame, main |-> NoFrame, by |-> "none",
                inserts |-> 0, panelOps |-> 0, cleared |-> FALSE, begun |-> 0,
                temp_exec_code |-> "None", temp_exec_result |-> NoResponse,
                execs |-> [ worker |-> 0, main |-> 0 ],
                executed |-> << >>, returned |-> << >> ]

InitHost ==
    /\ InitThreads
    /\ inserted = << "server_start" >>
    /\ backlog = << >>
    /\ is_server_running = TRUE
    /\ server_socket = "listening"
    /\ server_thread = "alive"
    /\ spc = "idle"
    /\ stops = << >>
    /\ starts = << "success" >>

Init == InitCommon /\ InitClient /\ InitHost /\ InitText /\ clientKind = "raw"

InitConnector ==
    InitCommon /\ InitClient /\ InitHost /\ InitText /\ clientKind = "connector"

-----------------------------------------------------------------------------
(* The environment: a client and the transport *)

(* while the server is started and stopped, a single client connects      *)
(* once a worker has been started, and writes a single message             *)
PanelClient == IF \E i \in DOMAIN starts : starts[i] = "success" THEN 1 ELSE 0

Budget ==
    CASE clientKind = "raw"       -> MaxSends
      [] clientKind = "connector" -> MaxCommands
      [] clientKind = "panel"     -> PanelClient
      [] clientKind = "queue"     -> MaxQueued

ConnBudget ==
    CASE clientKind = "raw"       -> MaxConns
      [] clientKind = "connector" -> MaxSessions
      [] clientKind = "panel"     -> PanelClient
      [] clientKind = "queue"     -> MaxQueued

(* the worker is inside the per-client loop *)
Serving == pc \in { "recv", "handle", "send", "send_json_error", "send_error" }

ClientSend(frag) ==
    /\ UNCHANGED << clientVars, hostVars, nlVars, threads >>
    /\ Serving
    /\ ~peerClosed
    /\ nSends < Budget
    /\ clientKind = "connector" => (pc = "recv" /\ wire = << >> /\ data = << >>)
    /\ wire' = wire \o frag
    /\ nSends' = nSends + 1
    /\ UNCHANGED << pc, client_socket, data, command_type, response,
                    command_history, last_error, scene, hostMutations,
                    peerClosed, rst, nConn, clientKind, chunks, cycles >>

(* The client closes (or shuts down) its end: the server reads EOF after   *)
(* the bytes still in flight.                                              *)
ClientClose ==
    /\ UNCHANGED << clientVars, hostVars, nlVars, threads >>
    /\ Serving
    /\ ~peerClosed
    /\ peerClosed' = TRUE
    /\ UNCHANGED << pc, client_socket, data, command_type, response,
                    command_history, last_error, scene, hostMutations, wire,
                    rst, nConn, nSends, clientKind, chunks, cycles >>

(* The connection is reset: from now on sendall raises, recv raises or     *)
(* returns what is still buffered.                                         *)
ConnReset ==
    /\ UNCHANGED << clientVars, hostVars, nlVars, threads >>
    /\ Serving
    /\ ~rst
    /\ rst' = TRUE
    /\ peerClosed' = TRUE
    /\ UNCHANGED << pc, client_socket, data, command_type, response,
                    command_history, last_error, scene, hostMutations, wire,
                    nConn, nSends, clientKind, chunks, cycles >>

-----------------------------------------------------------------------------
(* The server worker: socket_server_function *)

SocketError == << "Socket error" >>

(* while is_server_running (line 806): the worker goes on to accept, or    *)
(* leaves the loop for the finally block                                   *)
AcceptLoop == IF is_server_running THEN "accept" ELSE "finally"

(* while is_server_running (line 814): the worker goes on to receive the   *)
(* next message, or leaves the loop for the close block                    *)
ServeLoop == IF is_server_running THEN "recv" ELSE "close"

(* The connection is over for the server: what is left of the transport   *)
(* is never read again, and data is reset before its next use              *)
Gone ==
    /\ wire' = << >>
    /\ peerClosed' = TRUE
    /\ rst' = TRUE
    /\ data' = << >>
    /\ chunks' = 0

(* Mutant: connections are accepted while a client is being served *)
AcceptWhileServing(p) == p \in { "accept", "recv" }

(* accept() is called only at the top of the outer loop (line 809) *)
AcceptEnabled(p) == p = "accept"

(* server_socket.accept(): the next client is attached.  A client         *)
(* connects only while it has something left to write.                     *)
Accept ==
    /\ UNCHANGED << clientVars, nlVars, threads, inserted, is_server_running,
                    server_socket,
                    server_thread, spc, stops, starts >>
    /\ AcceptEnabled(pc)
    /\ IF backlog # << >>
       THEN /\ wire' = Head(backlog)
            /\ backlog' = Tail(backlog)
       ELSE /\ nConn < ConnBudget
            /\ nSends < Budget
            /\ wire' = << >>
            /\ UNCHANGED backlog
    /\ nConn' = nConn + 1
    /\ client_socket' = "open"
    /\ command_history' = add_to_command_history(command_history, "client_connect")
    /\ peerClosed' = FALSE
    /\ rst' = FALSE
    /\ data' = << >>
    /\ chunks' = 0
    /\ cycles' = << >>
    /\ pc' = ServeLoop
    /\ UNCHANGED << command_type, response, last_error, scene, hostMutations,
                    nSends, clientKind >>

(* chunk = client_socket.recv(4096) returns k bytes; data += chunk; the    *)
(* loop ends when data ends with the newline                               *)
RecvData(k) ==
    /\ UNCHANGED << clientVars, hostVars, nlVars, threads >>
    /\ pc = "recv"
    /\ k \in 1..Len(wire)
    /\ data' = data \o SubSeq(wire, 1, k)
    /\ wire' = SubSeq(wire, k + 1, Len(wire))
    /\ chunks' = chunks + 1
    /\ pc' = IF FrameComplete(data') THEN "handle" ELSE "recv"
    /\ UNCHANGED << client_socket, command_type, response, command_history,
                    last_error, scene, hostMutations, peerClosed, rst, nConn,
                    nSends, clientKind, cycles >>

(* recv returns b"": the inner loop breaks; the outer loop breaks only     *)
(* when nothing was accumulated                                            *)
RecvEof ==
    /\ UNCHANGED << clientVars, hostVars, nlVars, threads >>
    /\ pc = "recv"
    /\ wire = << >>
    /\ peerClosed
    /\ ~rst
    /\ pc' = IF data = << >> THEN "close" ELSE "handle"
    /\ UNCHANGED << client_socket, data, command_type, response,
                    command_history, last_error, scene, hostMutations, wire,
                    peerClosed, rst, nConn, nSends, clientKind, chunks, cycles >>

(* recv raises socket.error: except socket.error, break *)
RecvError ==
    /\ UNCHANGED << clientVars, hostVars, nlVars, threads >>
    /\ pc = "recv"
    /\ rst
    /\ command_history' = add_to_command_history(command_history, "socket_error")
    /\ last_error' = save_error("socket_error", SocketError)
    /\ pc' = "close"
    /\ UNCHANGED << client_socket, data, command_type, response, scene,
                    hostMutations, wire, peerClosed, rst, nConn, nSends,
                    clientKind, chunks, cycles >>

(* Mutant: a JSON error ends the per-client loop without an answer *)
SendSiteJsonBreaks(path) ==
    CASE path = "ok"         -> "send"
      [] path = "json_error" -> "close"
      [] path = "exception"  -> "send_error"

(* Mutant: an exception in a handler ends the per-client loop *)
SendSiteExceptionBreaks(path) ==
    CASE path = "ok"         -> "send"
      [] path = "json_error" -> "send_json_error"
      [] path = "exception"  -> "close"

SendSite(path) ==
    CASE path = "ok"         -> "send"
      [] path = "json_error" -> "send_json_error"
      [] path = "exception"  -> "send_error"

(* decode, json.loads, dispatch; the except clauses up to their sendall.   *)
(* data and the chunk count are not read again before the next iteration   *)
(* resets them.                                                            *)
HandleCommand ==
    /\ UNCHANGED << clientVars, hostVars, nlVars, threads >>
    /\ pc = "handle"
    /\ LET o == ProcessMessage(data, command_type, scene, last_error) IN
        /\ command_type' = o.ctype
        /\ response' = o.resp
        /\ scene' = o.scene
        /\ hostMutations' = hostMutations + o.mut
        /\ command_history' = AddAll(command_history, o.hist)
        /\ last_error' = o.err
        /\ pc' = SendSite(o.path)
        /\ cycles' = Append(cycles,
              [ conn |-> nConn, blob |-> data,
                type |-> o.doctype, invoked |-> o.invoked, raised |-> o.raised,
                resp |-> o.resp, mut |-> o.mut, sent |-> "pending",
                next |-> "pending" ])
    /\ data' = << >>
    /\ chunks' = 0
    /\ UNCHANGED << client_socket, wire, peerClosed, rst, nConn, nSends,
                    clientKind >>

Finish(sent, next) ==
    [ cycles EXCEPT ![Len(cycles)].sent = sent, ![Len(cycles)].next = next ]

(* Mutant: the error slot is written after every Response *)
SaveAlways(resp, ctype, err) == save_error(ctype, resp.body)

(* if status == "error" and "message" in response: save_error(...) *)
SaveIfError(resp, ctype, err) ==
    IF resp.status = "error" THEN save_error(ctype, resp.body) ELSE err

(* client_socket.sendall(response_str) in the try body, then the response  *)
(* is logged and last_error saved; a socket.error breaks the loop          *)
SendResponse ==
    /\ UNCHANGED << clientVars, hostVars, nlVars, threads >>
    /\ pc = "send"
    /\ IF rst
       THEN /\ command_history' =
                  add_to_command_history(command_history, "socket_error")
            /\ last_error' = save_error("socket_error", SocketError)
            /\ cycles' = Finish("failed", "close")
            /\ pc' = "close"
       ELSE /\ command_history' =
                  add_to_command_history(command_history, "response")
            /\ last_error' = SaveIfError(response, command_type, last_error)
            /\ cycles' = Finish("sent", "recv")
            /\ pc' = ServeLoop
    /\ UNCHANGED << client_socket, data, command_type, response, scene,
                    hostMutations, wire, peerClosed, rst, nConn, nSends,
                    clientKind, chunks >>

(* sendall inside except json.JSONDecodeError: a socket.error leaves the   *)
(* inner try and is caught by the accept loop's except socket.error, which *)
(* saves the error and goes back to accept without closing the client      *)
SendJsonError ==
    /\ UNCHANGED << clientVars, hostVars, nlVars, threads >>
    /\ pc = "send_json_error"
    /\ IF rst
       THEN /\ last_error' = save_error("socket_accept", SocketError)
            /\ cycles' = Finish("failed", "accept")
            /\ pc' = AcceptLoop
            /\ Gone
       ELSE /\ cycles' = Finish("sent", "recv")
            /\ pc' = ServeLoop
            /\ UNCHANGED << last_error, wire, peerClosed, rst, data, chunks >>
    /\ UNCHANGED << client_socket, command_type, response, command_history,
                    scene, hostMutations, nConn, nSends, clientKind >>

(* sendall inside except Exception: its failure is swallowed and the loop  *)
(* goes on to the next receive                                             *)
SendError ==
    /\ UNCHANGED << clientVars, hostVars, nlVars, threads >>
    /\ pc = "send_error"
    /\ cycles' = Finish(IF rst THEN "failed" ELSE "sent", "recv")
    /\ pc' = ServeLoop
    /\ UNCHANGED << client_socket, data, command_type, response,
                    command_history, last_error, scene, hostMutations, wire,
                    peerClosed, rst, nConn, nSends, clientKind, chunks >>

(* after the per-client loop: close, log the disconnect, client_socket = None *)
CloseClient ==
    /\ UNCHANGED << clientVars, hostVars, nlVars, threads >>
    /\ pc = "close"
    /\ client_socket' = "None"
    /\ command_history' =
          add_to_command_history(command_history, "client_disconnect")
    /\ pc' = AcceptLoop
    /\ Gone
    /\ UNCHANGED << command_type, response, last_error, scene, hostMutations,
                    nConn, nSends, clientKind, cycles >>

Next ==
    \/ \E frag \in Fragments(clientKind) : ClientSend(frag)
    \/ ClientClose
    \/ ConnReset
    \/ Accept
    \/ \E k \in 1..Len(wire) : RecvData(k)
    \/ RecvEof
    \/ RecvError
    \/ HandleCommand
    \/ SendResponse
    \/ SendJsonError
    \/ SendError
    \/ CloseClient

Spec == Init /\ [][Next]_vars

SpecConnector == InitConnector /\ [][Next]_vars

-----------------------------------------------------------------------------
(* Clients that connect while another client is being served *)

(* server_socket.listen(1) *)
ListenBacklog == 1

(* the operating system completes the connection of a second client *)
QueueConnect ==
    /\ Serving
    /\ server_socket = "listening"
    /\ Len(backlog) < ListenBacklog
    /\ nConn + Len(backlog) < ConnBudget
    /\ backlog' = Append(backlog, << >>)
    /\ UNCHANGED << serverVars, clientVars, nlVars, threads, inserted,
                    is_server_running,
                    server_socket, server_thread, spc, stops, starts >>

(* a client that has not been accepted yet writes *)
QueueSend(frag) ==
    /\ backlog # << >>
    /\ nSends < Budget
    /\ backlog' = [ backlog EXCEPT ![1] = @ \o frag ]
    /\ nSends' = nSends + 1
    /\ UNCHANGED << pc, client_socket, data, command_type, response,
                    command_history, last_error, scene, hostMutations, wire,
                    peerClosed, rst, nConn, clientKind, chunks, cycles,
                    clientVars, nlVars, threads, inserted, is_server_running,
                    server_socket,
                    server_thread, spc, stops, starts >>

InitQueue ==
    InitCommon /\ InitClient /\ InitHost /\ InitText /\ clientKind = "queue"

NextQueue ==
    \/ QueueConnect
    \/ \E frag \in Fragments(clientKind) : QueueSend(frag)
    \/ Next

SpecQueue == InitQueue /\ [][NextQueue]_vars

-----------------------------------------------------------------------------
(* Starting and stopping the server: start_server and stop_server run on   *)
(* the host's main thread, socket_server_function on the worker thread.    *)

(* Mutant: close leaves the socket open *)
close_noop(s) == s

(* socket.close(), guarded by "if <socket>:"; closing twice is harmless *)
close(s) == IF s = "None" THEN "None" ELSE "closed"

(* the globals stop_server reads and writes *)
Snapshot ==
    [ running |-> is_server_running, client |-> client_socket,
      server |-> server_socket, thread |-> server_thread ]

(* start_server: a live worker is reported, otherwise a thread is started *)
StartServer ==
    /\ spc = "idle"
    /\ Len(starts) + Len(stops) < MaxPanelOps
    /\ IF server_thread = "alive"
       THEN /\ starts' = Append(starts, "info")
            /\ UNCHANGED << server_thread, pc >>
       ELSE /\ starts' = Append(starts, "success")
            /\ server_thread' = "alive"
            /\ pc' = "bind"
    /\ UNCHANGED << client_socket, data, command_type, response,
                    command_history, last_error, scene, hostMutations, wire,
                    peerClosed, rst, nConn, nSends, clientKind, chunks, cycles,
                    clientVars, nlVars, threads, inserted, backlog, is_server_running, server_socket,
                    spc, stops >>

(* socket(), setsockopt, bind, listen (lines 797-800) *)
WorkerBind ==
    /\ pc = "bind"
    /\ server_socket' = "listening"
    /\ pc' = "started"
    /\ UNCHANGED << client_socket, data, command_type, response,
                    command_history, last_error, scene, hostMutations, wire,
                    peerClosed, rst, nConn, nSends, clientKind, chunks, cycles,
                    clientVars, nlVars, threads, inserted, backlog, is_server_running, server_thread,
                    spc, stops, starts >>

(* bind raises (the port is taken): except Exception of the outer try *)
WorkerBindError ==
    /\ pc = "bind"
    /\ server_socket' = "unbound"
    /\ command_history' = add_to_command_history(command_history, "server_error")
    /\ last_error' = save_error("server_start", << "Server error" >>)
    /\ pc' = "finally"
    /\ UNCHANGED << client_socket, data, command_type, response, scene,
                    hostMutations, wire, peerClosed, rst, nConn, nSends,
                    clientKind, chunks, cycles, clientVars, nlVars, threads, inserted, backlog,
                    is_server_running, server_thread, spc, stops, starts >>

(* the server_start entry and is_server_running = True (lines 803-804) *)
WorkerRunning ==
    /\ pc = "started"
    /\ command_history' = add_to_command_history(command_history, "server_start")
    /\ is_server_running' = TRUE
    /\ pc' = "accept"
    /\ UNCHANGED << client_socket, data, command_type, response, last_error,
                    scene, hostMutations, wire, peerClosed, rst, nConn, nSends,
                    clientKind, chunks, cycles, clientVars, nlVars, threads, inserted, backlog,
                    server_socket, server_thread, spc, stops, starts >>

(* while is_server_running at line 806 is found false *)
AcceptLoopExit ==
    /\ pc = "accept"
    /\ ~is_server_running
    /\ pc' = "finally"
    /\ UNCHANGED << client_socket, data, command_type, response,
                    command_history, last_error, scene, hostMutations, wire,
                    peerClosed, rst, nConn, nSends, clientKind, chunks, cycles,
                    clientVars, hostVars, nlVars, threads >>

(* while is_server_running at line 814 is found false before a receive *)
ServeLoopExit ==
    /\ pc = "recv"
    /\ data = << >>
    /\ chunks = 0
    /\ ~is_server_running
    /\ pc' = "close"
    /\ UNCHANGED << client_socket, data, command_type, response,
                    command_history, last_error, scene, hostMutations, wire,
                    peerClosed, rst, nConn, nSends, clientKind, chunks, cycles,
                    clientVars, hostVars, nlVars, threads >>

(* accept() on the closed listening socket raises: except socket.error at  *)
(* line 888, then the loop test                                            *)
AcceptError ==
    /\ pc = "accept"
    /\ server_socket = "closed"
    /\ last_error' = save_error("socket_accept", SocketError)
    /\ pc' = AcceptLoop
    /\ UNCHANGED << client_socket, data, command_type, response,
                    command_history, scene, hostMutations, wire,
                    peerClosed, rst, nConn, nSends, clientKind, chunks, cycles,
                    clientVars, hostVars, nlVars, threads >>

(* the finally block (lines 904-917); the thread ends *)
WorkerFinally ==
    /\ pc = "finally"
    /\ is_server_running' = FALSE
    /\ client_socket' = close(client_socket)
    /\ server_socket' = close(server_socket)
    /\ command_history' = add_to_command_history(command_history, "server_stop")
    /\ server_thread' = "dead"
    /\ pc' = "done"
    /\ UNCHANGED << data, command_type, response, last_error, scene,
                    hostMutations, wire, peerClosed, rst, nConn, nSends,
                    clientKind, chunks, cycles, clientVars, nlVars, threads, inserted, backlog, spc,
                    stops, starts >>

StopRecord ==
    [ from |-> pc, before |-> Snapshot, clientWas |-> "unseen",
      clientNow |-> "unseen", serverWas |-> "unseen", serverNow |-> "unseen",
      done |-> FALSE, result |-> "none", after |-> Snapshot,
      startsBefore |-> Len(starts) ]

(* stop_server, line 938: is_server_running = False *)
StopBegin ==
    /\ spc = "idle"
    /\ Len(starts) + Len(stops) < MaxPanelOps
    /\ is_server_running' = FALSE
    /\ stops' = Append(stops, StopRecord)
    /\ spc' = "close_client"
    /\ UNCHANGED << serverVars, clientVars, nlVars, threads, inserted, backlog, server_socket,
                    server_thread, starts >>

(* lines 941-945: the client socket, if any, is closed; from now on the    *)
(* worker's calls on it raise                                              *)
StopCloseClient ==
    /\ spc = "close_client"
    /\ client_socket' = close(client_socket)
    /\ rst' = (rst \/ client_socket = "open")
    /\ peerClosed' = (peerClosed \/ client_socket = "open")
    /\ stops' = [ stops EXCEPT ![Len(stops)].clientWas = client_socket,
                               ![Len(stops)].clientNow = client_socket' ]
    /\ spc' = "close_server"
    /\ UNCHANGED << pc, data, command_type, response, command_history,
                    last_error, scene, hostMutations, wire, nConn, nSends,
                    clientKind, chunks, cycles, clientVars, nlVars, threads, inserted, backlog,
                    is_server_running, server_socket, server_thread, starts >>

(* lines 948-952: the listening socket, if any, is closed *)
StopCloseServer ==
    /\ spc = "close_server"
    /\ server_socket' = close(server_socket)
    /\ stops' = [ stops EXCEPT ![Len(stops)].serverWas = server_socket,
                               ![Len(stops)].serverNow = server_socket' ]
    /\ spc' = "join"
    /\ UNCHANGED << serverVars, clientVars, nlVars, threads, inserted, backlog, is_server_running,
                    server_thread, starts >>

(* lines 955-958: server_thread.join(2.0) returns when the worker has      *)
(* ended or after the timeout; the success result is returned              *)
StopReturn ==
    /\ spc = "join"
    /\ stops' = [ stops EXCEPT ![Len(stops)].done = TRUE,
                               ![Len(stops)].result = "success",
                               ![Len(stops)].after = Snapshot ]
    /\ spc' = "idle"
    /\ UNCHANGED << serverVars, clientVars, nlVars, threads, inserted, backlog, is_server_running,
                    server_socket, server_thread, starts >>

(* the add-on has been registered; no server was started yet *)
InitStopped ==
    /\ pc = "idle"
    /\ client_socket = "None"
    /\ data = << >>
    /\ command_type = "unset"
    /\ response = NoResponse
    /\ command_history = << >>
    /\ last_error = NoError
    /\ scene = InitScene
    /\ hostMutations = 0
    /\ wire = << >>
    /\ peerClosed = FALSE
    /\ rst = FALSE
    /\ nConn = 0
    /\ nSends = 0
    /\ clientKind = "panel"
    /\ chunks = 0
    /\ cycles = << >>
    /\ InitClient
    /\ InitText
    /\ InitThreads
    /\ inserted = << >>
    /\ backlog = << >>
    /\ is_server_running = FALSE
    /\ server_socket = "None"
    /\ server_thread = "None"
    /\ spc = "idle"
    /\ stops = << >>
    /\ starts = << >>

NextLifecycle ==
    \/ StartServer
    \/ WorkerBind
    \/ WorkerBindError
    \/ WorkerRunning
    \/ AcceptLoopExit
    \/ ServeLoopExit
    \/ AcceptError
    \/ WorkerFinally
    \/ StopBegin
    \/ StopCloseClient
    \/ StopCloseServer
    \/ StopReturn
    \/ Next

SpecLifecycle == InitStopped /\ [][NextLifecycle]_vars

(* The steps a running worker thread takes by itself.  accept() and recv()  *)
(* are called without a timeout: a worker inside one of them proceeds only  *)
(* when the call returns or raises, and the loop tests at lines 806 and 814 *)
(* are not evaluated meanwhile.                                             *)
WorkerStep ==
    \/ WorkerBind
    \/ WorkerBindError
    \/ WorkerRunning
    \/ HandleCommand
    \/ SendResponse
    \/ SendJsonError
    \/ SendError
    \/ CloseClient
    \/ WorkerFinally

(* the steps of a stop_server call once it has begun *)
StopStep == StopCloseClient \/ StopCloseServer \/ StopReturn

SpecLifecycleFair ==
    SpecLifecycle /\ WF_vars(WorkerStep) /\ WF_vars(StopStep)

-----------------------------------------------------------------------------
(* The client connector: BlenderMCPService *)

(* The server's json.dumps(response) + "\n": "S" is a success Response,    *)
(* "E" an error Response                                                   *)
EncodeResponse(status) ==
    << "{", (IF status = "success" THEN "S" ELSE "E"), "}", NL >>

(* json.loads on the response text *)
LoadsResponse(s) ==
    IF s = << "{", "S", "}" >> THEN [ ok |-> TRUE, status |-> "success" ]
    ELSE IF s = << "{", "E", "}" >> THEN [ ok |-> TRUE, status |-> "error" ]
    ELSE [ ok |-> FALSE, status |-> "none" ]

(* Mutant: a failed connect leaves self.connected as it was *)
ConnectKeepsFlag(up, was) ==
    IF up THEN [ ret |-> TRUE, connected |-> TRUE, sock |-> "open" ]
    ELSE [ ret |-> FALSE, connected |-> was, sock |-> "unconnected" ]

(* connect(): a new socket object; on any exception connected = False and  *)
(* False is returned                                                       *)
Connect(up, was) ==
    IF up THEN [ ret |-> TRUE, connected |-> TRUE, sock |-> "open" ]
    ELSE [ ret |-> FALSE, connected |-> FALSE, sock |-> "unconnected" ]

Finished(c, outcome, status, after) ==
    [ op |-> c.op, wasConnected |-> c.wasConnected, connects |-> c.connects,
      connectOk |-> c.connectOk, wrote |-> c.wrote, transport |-> "ok",
      outcome |-> outcome, status |-> status, connectedAfter |-> after ]

Started == Len(calls) + (IF cpc = "idle" THEN 0 ELSE 1)

CallConnect ==
    /\ UNCHANGED << serverVars, hostVars, nlVars, threads >>
    /\ cpc = "idle"
    /\ Started < MaxCalls
    /\ LET c == Connect(listening, connected) IN
        /\ connected' = c.connected
        /\ sock' = c.sock
        /\ link' = IF c.ret THEN "up" ELSE "none"
        /\ calls' = Append(calls,
              Finished([ op |-> "connect", wasConnected |-> connected,
                         connects |-> 1, connectOk |-> c.ret, wrote |-> FALSE ],
                       IF c.ret THEN "true" ELSE "false", "none", c.connected))
    /\ inbox' = << >>
    /\ pending' = FALSE
    /\ UNCHANGED << cpc, response_data, listening, cur >>

(* disconnect(): closes the socket when there is one *)
CallDisconnect ==
    /\ UNCHANGED << serverVars, hostVars, nlVars, threads >>
    /\ cpc = "idle"
    /\ Started < MaxCalls
    /\ IF sock # "None"
       THEN /\ sock' = "closed"
            /\ connected' = FALSE
            /\ link' = "none"
            /\ inbox' = << >>
            /\ pending' = FALSE
       ELSE UNCHANGED << sock, connected, link, inbox, pending >>
    /\ calls' = Append(calls,
          Finished([ op |-> "disconnect", wasConnected |-> connected,
                     connects |-> 0, connectOk |-> TRUE, wrote |-> FALSE ],
                   "true", "none", connected'))
    /\ UNCHANGED << cpc, response_data, listening, cur >>

(* send_command, up to the try block: when not connected, connect() is     *)
(* called, and its failure returns the "Not connected to Blender" error    *)
CallSendCommand ==
    /\ UNCHANGED << serverVars, hostVars, nlVars, threads >>
    /\ cpc = "idle"
    /\ Started < MaxCalls
    /\ IF connected
       THEN /\ cur' = [ op |-> "send_command", wasConnected |-> TRUE,
                        connects |-> 0, connectOk |-> TRUE, wrote |-> FALSE ]
            /\ cpc' = "send"
            /\ UNCHANGED << connected, sock, link, inbox, pending, calls >>
       ELSE LET c == Connect(listening, connected)
                call == [ op |-> "send_command", wasConnected |-> FALSE,
                          connects |-> 1, connectOk |-> c.ret, wrote |-> FALSE ]
            IN  /\ connected' = c.connected
                /\ sock' = c.sock
                /\ link' = IF c.ret THEN "up" ELSE "none"
                /\ inbox' = << >>
                /\ pending' = FALSE
                /\ IF c.connected
                   THEN /\ cur' = call
                        /\ cpc' = "send"
                        /\ UNCHANGED calls
                   ELSE /\ calls' = Append(calls,
                              Finished(call, "response", "error", c.connected))
                        /\ UNCHANGED << cur, cpc >>
    /\ UNCHANGED << response_data, listening >>

(* Mutant: the failure is reported but the client stays Connected *)
TransportFailureStaysConnected(kind) ==
    /\ connected' = connected
    /\ calls' = Append(calls,
          [ Finished(cur, "response", "error", connected) EXCEPT !.transport = kind ])
    /\ cur' = NoCall
    /\ cpc' = "idle"

(* except Exception: connected = False, an error Response is returned *)
TransportFailure(kind) ==
    /\ connected' = FALSE
    /\ calls' = Append(calls,
          [ Finished(cur, "response", "error", FALSE) EXCEPT !.transport = kind ])
    /\ cur' = NoCall
    /\ cpc' = "idle"

(* self.socket.sendall(command_str.encode('utf-8')) *)
DoSendall ==
    /\ UNCHANGED << serverVars, hostVars, nlVars, threads >>
    /\ cpc = "send"
    /\ IF link \in { "up", "closed" }
       THEN /\ cur' = [ cur EXCEPT !.wrote = TRUE ]
            /\ pending' = (link = "up")
            /\ response_data' = << >>
            /\ cpc' = "recv"
            /\ UNCHANGED << connected, calls >>
       ELSE /\ TransportFailure("send_raised")
            /\ UNCHANGED << pending, response_data >>
    /\ UNCHANGED << sock, inbox, link, listening >>

(* response_str = response_data.decode().strip(); json.loads(response_str); *)
(* a parse error is caught by except Exception                             *)
ParseResponse(d, transport) ==
    LET r == LoadsResponse(Strip(d)) IN
    IF r.ok
    THEN /\ calls' = Append(calls,
               [ Finished(cur, "response", r.status, connected)
                   EXCEPT !.transport = transport ])
         /\ cur' = NoCall
         /\ cpc' = "idle"
         /\ UNCHANGED connected
    ELSE TransportFailure(IF transport = "ok" THEN "bad_response" ELSE transport)

(* chunk = self.socket.recv(4096) returns k bytes; the loop ends when the  *)
(* chunk holds a newline                                                   *)
DoRecv(k) ==
    /\ UNCHANGED << serverVars, hostVars, nlVars, threads >>
    /\ cpc = "recv"
    /\ k \in 1..Len(inbox)
    /\ inbox' = SubSeq(inbox, k + 1, Len(inbox))
    /\ IF HasNewline(SubSeq(inbox, 1, k))
       THEN /\ ParseResponse(response_data \o SubSeq(inbox, 1, k), "ok")
            /\ response_data' = << >>
       ELSE /\ response_data' = response_data \o SubSeq(inbox, 1, k)
            /\ UNCHANGED << connected, calls, cur, cpc >>
    /\ UNCHANGED << sock, link, listening, pending >>

(* recv returns b"": the loop breaks and what was accumulated is parsed *)
DoRecvEof ==
    /\ UNCHANGED << serverVars, hostVars, nlVars, threads >>
    /\ cpc = "recv"
    /\ inbox = << >>
    /\ link = "closed"
    /\ ParseResponse(response_data, "eof")
    /\ response_data' = << >>
    /\ UNCHANGED << sock, inbox, link, listening, pending >>

(* recv raises *)
DoRecvError ==
    /\ UNCHANGED << serverVars, hostVars, nlVars, threads >>
    /\ cpc = "recv"
    /\ link = "reset"
    /\ TransportFailure("recv_raised")
    /\ response_data' = << >>
    /\ UNCHANGED << sock, inbox, link, listening, pending >>

(* The server as the client sees it *)
EnvListen ==
    /\ UNCHANGED << serverVars, hostVars, nlVars, threads >>
    /\ listening' = ~listening
    /\ UNCHANGED << connected, sock, cpc, response_data, inbox, link, pending,
                    cur, calls >>

(* the server answers; it may die after k bytes of the answer *)
EnvAnswer(status, k) ==
    /\ UNCHANGED << serverVars, hostVars, nlVars, threads >>
    /\ link = "up"
    /\ pending
    /\ k \in 1..Len(EncodeResponse(status))
    /\ inbox' = inbox \o SubSeq(EncodeResponse(status), 1, k)
    /\ pending' = FALSE
    /\ link' = IF k < Len(EncodeResponse(status)) THEN "closed" ELSE "up"
    /\ UNCHANGED << connected, sock, cpc, response_data, listening, cur, calls >>

EnvClose ==
    /\ UNCHANGED << serverVars, hostVars, nlVars, threads >>
    /\ link = "up"
    /\ link' = "closed"
    /\ pending' = FALSE
    /\ UNCHANGED << connected, sock, cpc, response_data, inbox, listening,
                    cur, calls >>

EnvReset ==
    /\ UNCHANGED << serverVars, hostVars, nlVars, threads >>
    /\ link \in { "up", "closed" }
    /\ link' = "reset"
    /\ pending' = FALSE
    /\ UNCHANGED << connected, sock, cpc, response_data, inbox, listening,
                    cur, calls >>

NextClient ==
    \/ CallConnect
    \/ CallDisconnect
    \/ CallSendCommand
    \/ DoSendall
    \/ \E k \in 1..Len(inbox) : DoRecv(k)
    \/ DoRecvEof
    \/ DoRecvError
    \/ EnvListen
    \/ \E status \in { "success", "error" } : \E k \in 1..4 : EnvAnswer(status, k)
    \/ EnvClose
    \/ EnvReset

SpecClient == InitConnector /\ [][NextClient]_vars

(* The steps the calling thread takes by itself inside send_command: the   *)
(* interpreter keeps running it, so a step that stays possible is taken.   *)
(* No socket timeout is set, so there is no step for one.                  *)
ClientStep ==
    \/ DoSendall
    \/ \E k \in 1..Len(inbox) : DoRecv(k)
    \/ DoRecvEof
    \/ DoRecvError

SpecClientFair == SpecClient /\ WF_vars(ClientStep)

-----------------------------------------------------------------------------
(* The command history on its own: any caller of add_to_command_history    *)
(* and the panel's Clear operator                                          *)

HistoryCommands == { "get_objects", "response" }

AddToHistory(c) ==
    /\ Len(inserted) < MaxInserts
    /\ command_history' = add_to_command_history(command_history, c)
    /\ inserted' = << c >> \o inserted
    /\ UNCHANGED << pc, client_socket, data, command_type, response,
                    last_error, scene, hostMutations, wire, peerClosed, rst,
                    nConn, nSends, clientKind, chunks, cycles, clientVars,
                    nlVars, threads, backlog, is_server_running, server_socket, server_thread,
                    spc, stops, starts >>

(* clear_command_history: the history and last_error are reset *)
ClearHistory ==
    /\ command_history' = << >>
    /\ last_error' = NoError
    /\ inserted' = << >>
    /\ UNCHANGED << pc, client_socket, data, command_type, response,
                    scene, hostMutations, wire, peerClosed, rst,
                    nConn, nSends, clientKind, chunks, cycles, clientVars,
                    nlVars, threads, backlog, is_server_running, server_socket, server_thread,
                    spc, stops, starts >>

NextHistory ==
    \/ \E c \in HistoryCommands : AddToHistory(c)
    \/ ClearHistory

SpecHistory == Init /\ [][NextHistory]_vars

-----------------------------------------------------------------------------
(* add_to_command_history and clear_command_history statement by           *)
(* statement.  The server worker calls add_to_command_history; the main   *)
(* thread runs the operators of the panel: DOLPHINOKO_OT_test_command,     *)
(* which calls a handler and so add_to_command_history, and                *)
(* DOLPHINOKO_OT_clear_history.  A thread switch can happen between two    *)
(* statements, and between the evaluation of command_history[:N] and the   *)
(* assignment of its value to the global.                                  *)

MaxMainOps == 2    \* operators run from the panel during a run

Threads == { "worker", "main" }

(* what each thread inserts: the worker the entry of a Response, the main  *)
(* thread the entry of the test command's default handler                  *)
EntryOf(t) == IF t = "worker" THEN "response" ELSE "get_scene_info"

CanStart(t) ==
    /\ threads[t].pc = "idle"
    /\ IF t = "worker" THEN threads.inserts < MaxInserts
                       ELSE threads.panelOps < MaxMainOps

Entered(t) ==
    IF t = "worker"
    THEN [ threads EXCEPT !.inserts = @ + 1 ]
    ELSE [ threads EXCEPT !.panelOps = @ + 1 ]

RingUnchanged ==
    UNCHANGED << pc, client_socket, data, command_type, response, scene,
                 hostMutations, wire, peerClosed, rst, nConn, nSends,
                 clientKind, chunks, cycles, clientVars, hostVars, nlVars >>

(* line 86: command_history.insert(0, history_item) *)
HistoryInsert(t) ==
    /\ CanStart(t)
    /\ command_history' = << EntryOf(t) >> \o command_history
    /\ threads' = [ Entered(t) EXCEPT ![t].pc = "test", !.by = t,
                                      !.begun = @ + 1 ]
    /\ UNCHANGED last_error
    /\ RingUnchanged

(* line 87: if len(command_history) > MAX_HISTORY_ITEMS *)
HistoryTest(t) ==
    /\ threads[t].pc = "test"
    /\ threads' = [ threads EXCEPT ![t].pc =
                      IF Len(command_history) > MAX_HISTORY_ITEMS
                      THEN "slice" ELSE "idle" ]
    /\ UNCHANGED << command_history, last_error >>
    /\ RingUnchanged

(* command_history[:MAX_HISTORY_ITEMS] *)
Slice(hist) ==
    SubSeq(hist, 1, IF Len(hist) < MAX_HISTORY_ITEMS THEN Len(hist)
                                                     ELSE MAX_HISTORY_ITEMS)

(* line 88, right-hand side *)
HistorySlice(t) ==
    /\ threads[t].pc = "slice"
    /\ threads' = [ threads EXCEPT ![t].pc = "store",
                                   ![t].sliced = Slice(command_history) ]
    /\ UNCHANGED << command_history, last_error >>
    /\ RingUnchanged

(* line 88, the assignment to the global *)
HistoryStore(t) ==
    /\ threads[t].pc = "store"
    /\ command_history' = threads[t].sliced
    /\ threads' = [ threads EXCEPT ![t] = NoFrame, !.by = t ]
    /\ UNCHANGED last_error
    /\ RingUnchanged

(* clear_command_history, line 105: command_history = [] *)
ClearBegin ==
    /\ CanStart("main")
    /\ command_history' = << >>
    /\ threads' = [ Entered("main") EXCEPT !.main.pc = "clear_error",
                                           !.by = "main", !.begun = 0 ]
    /\ UNCHANGED last_error
    /\ RingUnchanged

(* clear_command_history, lines 106-111: last_error is reset *)
ClearError ==
    /\ threads.main.pc = "clear_error"
    /\ last_error' = NoError
    /\ threads' = [ threads EXCEPT !.main = NoFrame, !.by = "main",
                                   !.cleared = TRUE ]
    /\ UNCHANGED command_history
    /\ RingUnchanged

NextThreads ==
    \/ \E t \in Threads : HistoryInsert(t)
    \/ \E t \in Threads : HistoryTest(t)
    \/ \E t \in Threads : HistorySlice(t)
    \/ \E t \in Threads : HistoryStore(t)
    \/ ClearBegin
    \/ ClearError

SpecThreads == Init /\ [][NextThreads]_vars

-----------------------------------------------------------------------------
(* handle_execute_blender_code statement by statement.  The worker calls   *)
(* it for a command; the main thread calls it from                         *)
(* DOLPHINOKO_OT_test_command.  The code and its result are handed over    *)
(* through the class attributes bpy.types.Scene.temp_exec_code and         *)
(* temp_exec_result; bpy.ops.dolphinoko.execute_code() runs the operator   *)
(* in the calling thread.                                                  *)

MaxExecs == 2      \* calls of handle_execute_blender_code per thread

(* the code of the command each thread executes *)
CodeOf(t) == IF t = "worker" THEN "code of the worker" ELSE "code of the panel"

(* what exec leaves in result *)
ResultOf(code) == << "result of", code >>

CodeExecutionFailed == Error(<< "Code execution failed" >>)

ExecUnchanged ==
    UNCHANGED << pc, client_socket, data, command_type, response, last_error,
                 scene, wire, peerClosed, rst, nConn, nSends, clientKind,
                 chunks, cycles, clientVars, hostVars, nlVars >>

(* lines 530-547: the history entry, then temp_exec_code = simple_code *)
ExecStoreCode(t) ==
    /\ threads[t].pc = "idle"
    /\ threads.execs[t] < MaxExecs
    /\ command_history' =
          add_to_command_history(command_history, "execute_blender_code")
    /\ threads' = [ threads EXCEPT ![t].pc = "operator",
                                   ![t].code = CodeOf(t),
                                   !.execs[t] = @ + 1,
                                   !.by = t,
                                   !.temp_exec_code = CodeOf(t) ]
    /\ UNCHANGED hostMutations
    /\ ExecUnchanged

(* line 550 and DOLPHINOKO_OT_execute_code.execute: the code found in      *)
(* temp_exec_code is executed by the calling thread and its result stored  *)
ExecOperator(t) ==
    /\ threads[t].pc = "operator"
    /\ threads' = [ threads EXCEPT
                      ![t].pc = "result",
                      !.temp_exec_result = Success(ResultOf(threads.temp_exec_code)),
                      !.executed = Append(@, [ code |-> threads.temp_exec_code,
                                               thread |-> t ]) ]
    /\ hostMutations' = hostMutations + 1
    /\ UNCHANGED command_history
    /\ ExecUnchanged

(* lines 553-557: the result is taken from temp_exec_result, which is      *)
(* deleted, and returned                                                   *)
ExecReturn(t) ==
    /\ threads[t].pc = "result"
    /\ threads' = [ threads EXCEPT
                      ![t] = NoFrame,
                      !.temp_exec_result = NoResponse,
                      !.returned = Append(@,
                          [ thread |-> t, code |-> threads[t].code,
                            resp |-> IF threads.temp_exec_result = NoResponse
                                     THEN CodeExecutionFailed
                                     ELSE threads.temp_exec_result ]) ]
    /\ UNCHANGED << command_history, hostMutations >>
    /\ ExecUnchanged

NextExec ==
    \/ \E t \in Threads : ExecStoreCode(t)
    \/ \E t \in Threads : ExecOperator(t)
    \/ \E t \in Threads : ExecReturn(t)

SpecExec == Init /\ [][NextExec]_vars

-----------------------------------------------------------------------------
(* handle_natural_language.  A text is a sequence of characters; a keyword  *)
(* is looked up in it with Python's substring test.                         *)

MaxWords == 3      \* words of a generated text

(* the keywords the handler looks for, as character sequences *)
Keyword ==
    [ create |-> << "c", "r", "e", "a", "t", "e" >>,
      make |-> << "m", "a", "k", "e" >>,
      add |-> << "a", "d", "d" >>,
      cube |-> << "c", "u", "b", "e" >>,
      sphere |-> << "s", "p", "h", "e", "r", "e" >>,
      ball |-> << "b", "a", "l", "l" >>,
      cylinder |-> << "c", "y", "l", "i", "n", "d", "e", "r" >>,
      cone |-> << "c", "o", "n", "e" >>,
      plane |-> << "p", "l", "a", "n", "e" >>,
      red |-> << "r", "e", "d" >>,
      green |-> << "g", "r", "e", "e", "n" >>,
      blue |-> << "b", "l", "u", "e" >>,
      yellow |-> << "y", "e", "l", "l", "o", "w" >>,
      white |-> << "w", "h", "i", "t", "e" >>,
      black |-> << "b", "l", "a", "c", "k" >>,
      middle |-> << "m", "i", "d", "d", "l", "e" >>,
      center |-> << "c", "e", "n", "t", "e", "r" >> ]
Space == " "

(* str.lower() on the letters the texts use *)
Lower(c) ==
    CASE c = "A" -> "a"
      [] c = "B" -> "b"
      [] c = "C" -> "c"
      [] c = "M" -> "m"
      [] c = "R" -> "r"
      [] c = "S" -> "s"
      [] OTHER -> c

ToLower(s) == [ i \in 1..Len(s) |-> Lower(s[i]) ]

(* str.strip() of a text: leading and trailing whitespace removed *)
IsSpace(c) == c \in { Space, NL }

RECURSIVE LStripText(_)
LStripText(s) == IF s # << >> /\ IsSpace(s[1]) THEN LStripText(Tail(s)) ELSE s

RECURSIVE RStripText(_)
RStripText(s) ==
    IF s # << >> /\ IsSpace(s[Len(s)])
    THEN RStripText(SubSeq(s, 1, Len(s) - 1))
    ELSE s

StripText(s) == RStripText(LStripText(s))

(* sub in s *)
In(sub, s) ==
    \E i \in 0..(Len(s) - Len(sub)) : SubSeq(s, i + 1, i + Len(sub)) = sub

(* str.capitalize() of a keyword *)
Capitalize(w) ==
    CASE w = "red" -> "Red"
      [] w = "green" -> "Green"
      [] w = "blue" -> "Blue"
      [] w = "yellow" -> "Yellow"
      [] w = "white" -> "White"
      [] w = "black" -> "Black"
      [] w = "cube" -> "Cube"
      [] w = "sphere" -> "Sphere"
      [] w = "cylinder" -> "Cylinder"
      [] w = "cone" -> "Cone"
      [] w = "plane" -> "Plane"

(* a params["text"] that is not a string (a JSON number) *)
NonString == << "<number>" >>

Origin == << 0, 0, 0 >>

(* str(location) *)
Str(location) == CASE location = Origin -> "[0, 0, 0]"

(* the generated program: the primitives it adds, the name it gives to the *)
(* active object, the material it appends with its Base Color, and the     *)
(* value it leaves in result                                               *)
Code(adds, name, material, base_color, result) ==
    [ adds |-> adds, name |-> name, material |-> material,
      base_color |-> base_color, result |-> result ]

Primitive(kind, dims, location) ==
    [ kind |-> kind, dims |-> dims, location |-> location ]

NotUnderstood == << "I couldn't understand that command." >>

SpecialCode ==
    Code(<< Primitive("uv_sphere", << "radius", 1 >>, Origin) >>,
         << "Red", "Sphere" >>, << "Red", "Sphere", "_Mat" >>,
         << 1, 0, 0, 1 >>, << "Created a red sphere in the middle" >>)

DefaultCodeCreatesCube ==
    Code(<< Primitive("cube", << "size", 1 >>, Origin) >>, << "Object" >>,
         << >>, << >>, NotUnderstood)

DefaultCode == Code(<< >>, << >>, << >>, << >>, NotUnderstood)

ShapeOf(t) ==
    IF In(Keyword.cube, t) THEN "cube"
    ELSE IF In(Keyword.sphere, t) \/ In(Keyword.ball, t) THEN "sphere"
    ELSE IF In(Keyword.cylinder, t) THEN "cylinder"
    ELSE IF In(Keyword.cone, t) THEN "cone"
    ELSE IF In(Keyword.plane, t) THEN "plane"
    ELSE "None"

ColorOf(t) ==
    IF In(Keyword.red, t) THEN "red"
    ELSE IF In(Keyword.green, t) THEN "green"
    ELSE IF In(Keyword.blue, t) THEN "blue"
    ELSE IF In(Keyword.yellow, t) THEN "yellow"
    ELSE IF In(Keyword.white, t) THEN "white"
    ELSE IF In(Keyword.black, t) THEN "black"
    ELSE "None"

(* location stays [0, 0, 0] with or without a location phrase *)
LocationOf(t) ==
    IF In(Keyword.middle, t) \/ In(Keyword.center, t) THEN Origin ELSE Origin

ShapePrimitive(shape_type, location) ==
    CASE shape_type = "sphere" -> Primitive("uv_sphere", << "radius", 1 >>, location)
      [] shape_type = "cube" -> Primitive("cube", << "size", 1 >>, location)
      [] shape_type = "cylinder" ->
            Primitive("cylinder", << "radius", 1, "depth", 2 >>, location)
      [] shape_type = "cone" ->
            Primitive("cone", << "radius1", 1, "depth", 2 >>, location)
      [] shape_type = "plane" -> Primitive("plane", << "size", 2 >>, location)
      [] OTHER -> Primitive("cube", << "size", 1 >>, Origin)

color_values_swapped(color) ==
    CASE color = "red" -> << 0, 0, 1, 1 >>
      [] color = "green" -> << 0, 1, 0, 1 >>
      [] color = "blue" -> << 1, 0, 0, 1 >>
      [] color = "yellow" -> << 1, 1, 0, 1 >>
      [] color = "white" -> << 1, 1, 1, 1 >>
      [] color = "black" -> << 0, 0, 0, 1 >>

color_values(color) ==
    CASE color = "red" -> << 1, 0, 0, 1 >>
      [] color = "green" -> << 0, 1, 0, 1 >>
      [] color = "blue" -> << 0, 0, 1, 1 >>
      [] color = "yellow" -> << 1, 1, 0, 1 >>
      [] color = "white" -> << 1, 1, 1, 1 >>
      [] color = "black" -> << 0, 0, 0, 1 >>

GenericCode(t) ==
    LET shape_type == ShapeOf(t)
        color == ColorOf(t)
        location == LocationOf(t)
        noun == IF shape_type # "None" THEN shape_type ELSE "object"
        adds == << ShapePrimitive(shape_type, location) >>
    IN  IF color # "None"
        THEN LET name == IF shape_type # "None"
                         THEN << Capitalize(color), Capitalize(shape_type) >>
                         ELSE << "Object" >>
             IN  Code(adds, name, name \o << "_Mat" >>, color_values(color),
                      << "Created a", color, noun, "at location", Str(location) >>)
        ELSE Code(adds,
                  IF shape_type # "None" THEN << Capitalize(shape_type) >>
                                         ELSE << "Object" >>,
                  << >>, << >>,
                  << "Created a", noun, "at location", Str(location) >>)

IsSpecial(t) ==
    /\ In(Keyword.red, t)
    /\ In(Keyword.sphere, t) \/ In(Keyword.ball, t)
    /\ In(Keyword.middle, t) \/ In(Keyword.center, t)

HasVerb(t) ==
    \E x \in { Keyword.create, Keyword.make, Keyword.add } : In(x, t)

BranchGenericFirst(t) ==
    IF HasVerb(t) THEN "generic" ELSE IF IsSpecial(t) THEN "special" ELSE "default"

Branch(t) ==
    IF IsSpecial(t) THEN "special" ELSE IF HasVerb(t) THEN "generic" ELSE "default"

(* DOLPHINOKO_OT_execute_code: exec of the program; every primitive added  *)
(* becomes an object of the scene carrying the name and the material       *)
Exec(code) ==
    [ i \in 1..Len(code.adds) |->
        [ kind |-> code.adds[i].kind, location |-> code.adds[i].location,
          name |-> code.name, base_color |-> code.base_color ] ]

(* the call: which branch ran, the execute-code commands issued, the       *)
(* objects created, the Response returned or the exception raised          *)
Translation(branch, commands, created, resp, raised) ==
    [ called |-> TRUE, branch |-> branch, commands |-> commands,
      created |-> created, resp |-> resp, raised |-> raised ]

handle_execute_blender_code(branch, code) ==
    Translation(branch, << code >>, Exec(code), Success(code.result), FALSE)

handle_natural_language(t) ==
    IF t = NonString
    THEN Translation("none", << >>, << >>, NoResponse, TRUE)
    ELSE LET text_lower == StripText(ToLower(t))
             branch == Branch(text_lower)
         IN  handle_execute_blender_code(branch,
                 CASE branch = "special" -> SpecialCode
                   [] branch = "generic" -> GenericCode(text_lower)
                   [] OTHER -> DefaultCode)

(* the texts handed to the handler: words separated by single spaces *)
RECURSIVE Join(_)
Join(words) ==
    IF Len(words) = 0 THEN << >>
    ELSE IF Len(words) = 1 THEN words[1]
    ELSE words[1] \o << Space >> \o Join(Tail(words))

Word ==
    [ Make |-> << "M", "a", "k", "e" >>,
      hello |-> << "h", "e", "l", "l", "o" >>,
      there |-> << "t", "h", "e", "r", "e" >>,
      address |-> << "a", "d", "d", "r", "e", "s", "s" >>,
      a |-> << "a" >>,
      in |-> << "i", "n" >>,
      the |-> << "t", "h", "e" >> ]

Vocabulary ==
    { Keyword[k] : k \in DOMAIN Keyword }
        \cup { Word.Make, Word.hello, Word.there, Word.address }

CreateARedSphereInTheMiddle ==
    Join(<< Keyword.create, Word.a, Keyword.red, Keyword.sphere, Word.in,
            Word.the, Keyword.middle >>)

MakeABlueCube == Join(<< Keyword.make, Word.a, Keyword.blue, Keyword.cube >>)

HelloThere == Join(<< Word.hello, Word.there >>)

Texts ==
    { Join(words) :
        words \in UNION { [ 1..n -> Vocabulary ] : n \in 0..MaxWords } }
      \cup { CreateARedSphereInTheMiddle, MakeABlueCube, HelloThere,
             << Space >> \o MakeABlueCube \o << NL >>, NonString }

(* the server dispatches one natural_language command *)
NaturalLanguage ==
    /\ ~nl.called
    /\ nl' = handle_natural_language(text)
    /\ command_history' =
          IF nl'.raised THEN command_history
          ELSE add_to_command_history(
                   add_to_command_history(command_history, "natural_language"),
                   "execute_blender_code")
    /\ hostMutations' = hostMutations + Len(nl'.created)
    /\ scene' = IF \E i \in DOMAIN nl'.created : nl'.created[i].name = << "Cube" >>
                THEN [ scene EXCEPT !.hasCube = TRUE ]
                ELSE scene
    /\ UNCHANGED << pc, client_socket, data, command_type, response, last_error,
                    wire, peerClosed, rst, nConn, nSends, clientKind, chunks,
                    cycles, clientVars, hostVars, text, threads >>

InitTranslate ==
    /\ InitCommon
    /\ InitClient
    /\ InitHost
    /\ clientKind = "connector"
    /\ text \in Texts
    /\ nl = NoTranslation

NextTranslate == NaturalLanguage

SpecTranslate == InitTranslate /\ [][NextTranslate]_vars

-----------------------------------------------------------------------------
(* Properties of the server loop *)

Sent(i) == cycles[i].sent = "sent"
NumSent == Cardinality({ i \in DOMAIN cycles : Sent(i) })
Contains(seq, x) == \E k \in 1..Len(seq) : seq[k] = x
HasNL(s) == Contains(s, NL)
FirstNL(s) == CHOOSE k \in 1..Len(s) : s[k] = NL /\ \A j \in 1..(k - 1) : s[j] # NL
FirstLine(s) == SubSeq(s, 1, FirstNL(s))
Parsed(b) == Loads(Strip(b))

(* A cycle is waiting for its send exactly while the worker is at that send *)
AwaitsSend(i, site) == cycles[i].sent = "pending" => (i = Len(cycles) /\ pc = site)

(* C1: on one connection the Responses sent never exceed the commands read *)
(* and the two numbers differ by at most one.                              *)
C1_HalfDuplex ==
    /\ NumSent <= Len(cycles)
    /\ Len(cycles) - NumSent <= 1

AllCommands == TypeNames \X (SUBSET Fields)

IsCommand(b) == \E m \in AllCommands : b = Encode(m[1], m[2])

(* what was received begins with two complete commands *)
TwoCommands(b) ==
    /\ HasNL(b)
    /\ IsCommand(FirstLine(b))
    /\ IsCommand(SubSeq(b, FirstNL(b) + 1, Len(b)))

(* C2: when two complete commands arrive in one read, the first is the     *)
(* message of that cycle: it is decoded and dispatched on its own.         *)
C2_FirstMessageOnly ==
    \A i \in DOMAIN cycles :
        LET b == cycles[i].blob IN
        TwoCommands(b)
        => /\ cycles[i].type = Parsed(FirstLine(b)).type
           /\ cycles[i].invoked = (cycles[i].type \in command_handlers)

ExpectedResponse(t, p, sc) ==
    IF t \in command_handlers
    THEN CallHandler(t, [ isDict |-> TRUE, keys |-> p ], sc).resp
    ELSE Error(UnknownCommand(t))

(* C3: a message encoded by the client and delivered in any split is       *)
(* parsed only when it is complete, decodes to the command that was        *)
(* encoded, and is answered as that command is.                            *)
C3_FramingRoundTrip ==
    pc = "handle" =>
    \A m \in AllCommands :
        /\ LET d == Parsed(Encode(m[1], m[2])) IN
           d.kind = "object" /\ d.type = m[1] /\ ParamsOf(d).isDict
                             /\ ParamsOf(d).keys = m[2]
        /\ data \o wire = Encode(m[1], m[2])
           => /\ wire = << >>
              /\ ProcessMessage(data, command_type, scene, last_error).resp
                   = ExpectedResponse(m[1], m[2], scene)

(* every byte arrived in a read of its own, the delimiter last *)
C3_Witness ==
    /\ pc = "handle"
    /\ data = Encode("delete_object", {"name"})
    /\ chunks = Len(data)

(* C4: no handler is invoked for bytes that no newline terminated *)
C4_NoDispatchBeforeNewline ==
    \A i \in DOMAIN cycles : cycles[i].invoked => EndsWithNL(cycles[i].blob)

IsGarbageLine(b) == EndsWithNL(b) /\ ~DecodeFails(b) /\ Parsed(b).kind = "error"

(* C5: a newline-terminated message that is no JSON gets one error         *)
(* Response, no handler runs, the connection stays open, and the command   *)
(* that follows it is dispatched.                                          *)
C5_GarbageLine ==
    \A i \in DOMAIN cycles :
        IsGarbageLine(cycles[i].blob)
        => /\ cycles[i].resp.status = "error"
           /\ ~cycles[i].invoked
           /\ AwaitsSend(i, "send_json_error")
           /\ Sent(i) => cycles[i].next = "recv"
           /\ (Sent(i) /\ i < Len(cycles) /\ IsCommand(cycles[i + 1].blob))
              => /\ cycles[i + 1].type = Parsed(cycles[i + 1].blob).type
                 /\ cycles[i + 1].invoked = (cycles[i + 1].type \in command_handlers)
                 /\ cycles[i + 1].conn = cycles[i].conn

C5_Witness ==
    \E i \in DOMAIN cycles :
        /\ i < Len(cycles)
        /\ IsGarbageLine(cycles[i].blob)
        /\ Sent(i)
        /\ cycles[i + 1].blob = Encode("get_objects", {})
        /\ cycles[i + 1].invoked
        /\ Sent(i + 1)
        /\ cycles[i + 1].resp.status = "success"


(* C6: a command whose type is no key of command_handlers gets an error    *)
(* Response whose message contains the type, no handler runs, nothing is   *)
(* mutated and the loop goes on to the next receive.                       *)
C6_UnknownType ==
    \A i \in DOMAIN cycles :
        (cycles[i].type # "none" /\ cycles[i].type \notin command_handlers)
        => /\ cycles[i].resp.status = "error"
           /\ Contains(cycles[i].resp.body, cycles[i].type)
           /\ ~cycles[i].invoked
           /\ cycles[i].mut = 0
           /\ AwaitsSend(i, "send")
           /\ Sent(i) => cycles[i].next = "recv"

C6_Witness ==
    \E i \in DOMAIN cycles :
        /\ cycles[i].type = "poly_haven"
        /\ Sent(i)
        /\ cycles[i].next = "recv"
        /\ pc = "recv"
        /\ client_socket = "open"

(* C7: a registered command yields a Response with status success or       *)
(* error; when its handler raises, the Response is an error carrying the   *)
(* exception's description and the loop goes on to the next receive on the *)
(* same connection.                                                        *)
C7_HandlerNeverCrashesLoop ==
    \A i \in DOMAIN cycles :
        cycles[i].invoked
        => /\ cycles[i].resp.status \in { "success", "error" }
           /\ cycles[i].raised
              => /\ cycles[i].resp = Error(AttributeError)
                 /\ AwaitsSend(i, "send_error")
                 /\ cycles[i].next \in { "pending", "recv" }

C7_Witness ==
    \E i \in DOMAIN cycles :
        /\ cycles[i].invoked
        /\ cycles[i].raised
        /\ Sent(i)
        /\ cycles[i].next = "recv"
        /\ pc = "recv"

RequiredFields ==
    [ delete_object        |-> { "name" },
      modify_object        |-> { "name" },
      create_material      |-> { "name" },
      assign_material      |-> { "object_name", "material_name" },
      modify_active_object |-> { "name" } ]

(* the message that names field f of handler t *)
MissingFieldMessage(t, f) ==
    IF t = "create_material" \/ f = "material_name"
    THEN MaterialNameRequired
    ELSE ObjectNameRequired

-----------------------------------------------------------------------------
(* Properties of the client connector *)

(* C9: a failed connect() returns false and leaves the client              *)
(* Disconnected; send_command in the Disconnected state makes exactly one  *)
(* connect() and, when that fails, returns an error Response and writes    *)
(* nothing; no call raises.                                                *)
C9_ImplicitConnectOnce ==
    \A i \in DOMAIN calls :
        /\ calls[i].outcome # "raised"
        /\ (calls[i].op = "connect" /\ calls[i].outcome = "false")
           => ~calls[i].connectedAfter
        /\ (calls[i].op = "send_command" /\ ~calls[i].wasConnected)
           => /\ calls[i].connects = 1
              /\ ~calls[i].connectOk
                 => /\ calls[i].outcome = "response"
                    /\ calls[i].status = "error"
                    /\ ~calls[i].wrote
                    /\ ~calls[i].connectedAfter
        /\ (i < Len(calls) /\ ~calls[i].connectedAfter
                           /\ calls[i + 1].op = "send_command")
           => ~calls[i + 1].wasConnected

C9_Witness ==
    \E i \in DOMAIN calls :
        /\ i < Len(calls)
        /\ calls[i].op = "connect"
        /\ calls[i].wasConnected
        /\ calls[i].outcome = "false"
        /\ calls[i + 1].op = "send_command"
        /\ calls[i + 1].connects = 1
        /\ ~calls[i + 1].connectOk
        /\ calls[i + 1].status = "error"

(* C10: a send_command that meets a transport error while sending or       *)
(* receiving (send or recv raises, or the peer closes before the newline   *)
(* of the Response) returns an error Response and leaves the client        *)
(* Disconnected.                                                           *)
C10_TransportErrorDisconnects ==
    \A i \in DOMAIN calls :
        (calls[i].op = "send_command" /\ calls[i].transport # "ok")
        => /\ calls[i].outcome = "response"
           /\ calls[i].status = "error"
           /\ ~calls[i].connectedAfter


(* C11: every call of send_command eventually returns to its caller, also  *)
(* when the server accepted the connection and never answers.              *)
C11_SendCommandReturns == (cpc # "idle") ~> (cpc = "idle")

(* the step produces, or sends, a Response with status=error *)
ErrorResponseStep ==
    \/ /\ Len(cycles') = Len(cycles) + 1
       /\ cycles'[Len(cycles')].resp.status = "error"
    \/ /\ pc \in { "send", "send_json_error", "send_error" }
       /\ response.status = "error"
       /\ Len(cycles') = Len(cycles)
       /\ cycles'[Len(cycles')].sent = "sent"

TransportErrorStep ==
    /\ pc \in { "recv", "send", "send_json_error" }
    /\ rst
    /\ last_error'.command \in { "socket_error", "socket_accept" }
    /\ last_error'.error = SocketError

C14_TransportErrorLeavesServing ==
    [][ /\ \A i \in DOMAIN cycles' :
              cycles'[i].sent = "failed" => i = Len(cycles')
        /\ (pc # "accept" /\ pc' = "accept")
           => /\ client_socket' = "None"
              /\ command_history'[1] = "client_disconnect" ]_vars

-----------------------------------------------------------------------------
(* Properties of the command history *)

(* C12: the history never holds more than MAX_HISTORY_ITEMS entries, and   *)
(* it equals the most recent MAX_HISTORY_ITEMS insertions since the last   *)
(* clear, newest first.                                                    *)
C12_HistoryBounded ==
    /\ Len(command_history) <= MAX_HISTORY_ITEMS
    /\ command_history =
         SubSeq(inserted, 1, IF Len(inserted) > MAX_HISTORY_ITEMS
                             THEN MAX_HISTORY_ITEMS ELSE Len(inserted))

(* two more insertions than the history holds, the evicted ones differing  *)
(* from the newest                                                         *)
C12_Witness ==
    /\ Len(inserted) = MAX_HISTORY_ITEMS + 2
    /\ Len(command_history) = MAX_HISTORY_ITEMS
    /\ inserted[1] # inserted[MAX_HISTORY_ITEMS + 1]
    /\ inserted[Len(inserted)] # "server_start"

-----------------------------------------------------------------------------
(* Properties of starting and stopping *)

(* C15: stop_server closes the client socket it finds, if any, and the     *)
(* listening socket, and returns success; called when the worker has       *)
(* ended or was never started, it returns the same result and leaves the   *)
(* flag, the sockets and the thread as they were.                          *)
C15_StopServerIdempotent ==
    \A i \in DOMAIN stops :
        LET r == stops[i] IN
        /\ r.clientWas = "open" => r.clientNow = "closed"
        /\ r.serverWas = "listening" => r.serverNow = "closed"
        /\ r.done => r.result = "success"
        /\ (r.done /\ r.from \in { "idle", "done" }) => r.after = r.before

(* a first call from Serving closed both sockets, the worker ended, and a  *)
(* second call has returned                                                *)
C15_Witness ==
    /\ Len(stops) = 2
    /\ stops[1].from \in { "recv", "handle", "send" }
    /\ stops[1].clientWas = "open"
    /\ stops[1].serverWas = "listening"
    /\ stops[1].done
    /\ stops[2].from = "done"
    /\ stops[2].done
    /\ stops[2].before.client = "closed"

(* a call on a server that was never started has returned *)
C15_WitnessNeverStarted ==
    /\ Len(stops) >= 1
    /\ stops[1].from = "idle"
    /\ stops[1].done

IsPrefix(a, b) == Len(a) <= Len(b) /\ SubSeq(b, 1, Len(a)) = a

(* C16: one client at a time: a connection is accepted only in Listening;  *)
(* while a client is being served, what a waiting client has written stays *)
(* unread, and every command dispatched belongs to the accepted            *)
(* connection.                                                             *)
C16_OneClientAtATime ==
    [][ /\ nConn' # nConn => (pc = "accept" /\ nConn' = nConn + 1)
        /\ (Serving /\ backlog # << >>)
           => (backlog' # << >> /\ IsPrefix(backlog[1], backlog'[1]))
        /\ Len(cycles') > Len(cycles)
           => /\ cycles'[Len(cycles')].conn = nConn
              /\ cycles'[Len(cycles')].blob = data ]_vars

(* a second client has connected and written a whole command while the     *)
(* first client, already answered once, is still being served              *)
C16_Witness ==
    /\ Serving
    /\ nConn = 1
    /\ Len(cycles) = 1
    /\ cycles[1].sent = "sent"
    /\ backlog # << >>
    /\ backlog[1] = Encode("get_objects", {})

-----------------------------------------------------------------------------
(* Properties of handle_natural_language *)

(* the code of the only execute-code command the call issued *)
GeneratedCode == nl.commands[1]

HasMaterial(code) == code.material # << >>

CreatesShape(code) == code.adds # << >>

(* C17: on "create a red sphere in the middle" the handler issues exactly  *)
(* one execute-code command; its code adds one sphere at (0, 0, 0), names  *)
(* it with "Red" and "Sphere", and gives it a material whose base colour   *)
(* is (1, 0, 0, 1); the combined phrase is answered by the special case,   *)
(* not by the generic per-keyword branch.                                  *)
C17_RedSphereInTheMiddle ==
    (nl.called /\ text = CreateARedSphereInTheMiddle)
        => /\ ~nl.raised
           /\ Len(nl.commands) = 1
           /\ Len(GeneratedCode.adds) = 1
           /\ GeneratedCode.adds[1].kind = "uv_sphere"
           /\ GeneratedCode.adds[1].location = << 0, 0, 0 >>
           /\ Contains(GeneratedCode.name, "Red")
           /\ Contains(GeneratedCode.name, "Sphere")
           /\ HasMaterial(GeneratedCode)
           /\ GeneratedCode.base_color = << 1, 0, 0, 1 >>
           /\ Len(nl.created) = 1
           /\ nl.branch = "special"
           /\ nl.resp = Success(<< "Created a red sphere in the middle" >>)

C17_Witness ==
    /\ nl.called
    /\ text = CreateARedSphereInTheMiddle
    /\ Len(nl.created) = 1

(* C18: on "make a blue cube" the handler issues an execute-code command   *)
(* whose code adds a cube at the origin with a material whose base colour  *)
(* is (0, 0, 1, 1).                                                        *)
C18_BlueCube ==
    (nl.called /\ text = MakeABlueCube)
        => /\ ~nl.raised
           /\ Len(nl.commands) = 1
           /\ Len(GeneratedCode.adds) = 1
           /\ GeneratedCode.adds[1].kind = "cube"
           /\ GeneratedCode.adds[1].location = << 0, 0, 0 >>
           /\ HasMaterial(GeneratedCode)
           /\ GeneratedCode.base_color = << 0, 0, 1, 1 >>

C18_Witness ==
    /\ nl.called
    /\ text = MakeABlueCube
    /\ nl.branch = "generic"

(* the text, as a string, contains the keyword whatever the case *)
Mentions(keyword) == text # NonString /\ In(keyword, ToLower(text))

MentionsVerb == \E v \in { Keyword.create, Keyword.make, Keyword.add } : Mentions(v)

MentionsShape ==
    \E n \in { Keyword.cube, Keyword.sphere, Keyword.ball, Keyword.cylinder,
               Keyword.cone, Keyword.plane } : Mentions(n)

(* C19: for every text with no recognized verb and no recognized shape     *)
(* noun the handler returns the "not understood" result, creates no        *)
(* object, and raises nothing.                                             *)
C19_NotUnderstood ==
    (nl.called /\ text # NonString /\ ~MentionsVerb /\ ~MentionsShape)
        => /\ ~nl.raised
           /\ nl.resp = Success(NotUnderstood)
           /\ nl.created = << >>
           /\ \A i \in DOMAIN nl.commands : ~CreatesShape(nl.commands[i])

C19_Witness ==
    /\ nl.called
    /\ text = HelloThere
    /\ nl.resp = Success(NotUnderstood)

(* C20: for every text with none of the verbs create, make, add, no        *)
(* shape-creating code is generated, whatever shape, colour and location   *)
(* keywords the text contains.                                             *)
C20_VerbGatesCreation ==
    (nl.called /\ text # NonString /\ ~MentionsVerb)
        => /\ nl.created = << >>
           /\ \A i \in DOMAIN nl.commands : ~CreatesShape(nl.commands[i])

(* C21: for every text with a recognized verb but no recognized shape      *)
(* keyword the handler takes the "not understood" branch and generates no  *)
(* object-creating code.                                                   *)
C21_NeverGuesses ==
    (nl.called /\ text # NonString /\ MentionsVerb /\ ~MentionsShape)
        => /\ nl.branch = "default"
           /\ nl.resp = Success(NotUnderstood)
           /\ nl.created = << >>
           /\ \A i \in DOMAIN nl.commands : ~CreatesShape(nl.commands[i])

-----------------------------------------------------------------------------
(* Properties of the order of the steps of one command *)

(* the step is the sendall of the Response of a dispatched command *)
SendsResponse ==
    /\ pc = "send"
    /\ Len(cycles') = Len(cycles)
    /\ cycles'[Len(cycles')].sent = "sent"

(* C22: for each command the server dispatches, appends the history entry, *)
(* overwrites last_error when the Response has status=error, and only then *)
(* sends the Response: in the state in which an error Response is sent,    *)
(* last_error already describes that error.                                *)
C22_ErrorSavedBeforeSend ==
    [][ (SendsResponse /\ response.status = "error")
            => last_error.error = response.body ]_vars

-----------------------------------------------------------------------------
(* Properties of stopping the worker *)

(* C23: after stop_server has set is_server_running to false, the worker   *)
(* leaves both loops and eventually reaches Stopped (the thread function   *)
(* returns), whether it was blocked in accept, blocked in recv or          *)
(* processing a command.                                                   *)
C23_StopReachesStopped ==
    (/\ spc = "close_client"
     /\ stops[Len(stops)].from \in { "accept", "recv", "handle", "send" })
        ~> (pc = "done")

-----------------------------------------------------------------------------
(* Properties of a stale connection of the client *)

(* the step returns from the send_command in progress *)
Returns_send_command ==
    /\ cpc # "idle"
    /\ cpc' = "idle"
    /\ Len(calls') = Len(calls) + 1

(* the step is a send_command called on a Disconnected client *)
Calls_send_command_Disconnected ==
    /\ cpc = "idle"
    /\ ~connected
    /\ \/ cpc' = "send"
       \/ /\ Len(calls') = Len(calls) + 1
          /\ calls'[Len(calls')].op = "send_command"

(* C24: a stale Connected state is discovered only by the next             *)
(* send_command: the server closing the connection leaves the client       *)
(* Connected; a send_command on the dead connection to which the server    *)
(* sends nothing returns an error Response, sets Disconnected and makes no *)
(* connect() of its own; a send_command on the Disconnected client makes   *)
(* one fresh connect(), which succeeds when the server is listening.       *)
C24_StaleConnectionOnNextSend ==
    [][ /\ (link = "up" /\ link' \in { "closed", "reset" })
           => connected' = connected
        /\ (cpc = "send" /\ link # "up") => inbox = << >>
        /\ (Returns_send_command /\ cur.wasConnected /\ link # "up"
                /\ (cpc = "recv" => inbox = << >> /\ response_data = << >>))
           => /\ calls'[Len(calls')].status = "error"
              /\ calls'[Len(calls')].outcome = "response"
              /\ calls'[Len(calls')].connects = 0
              /\ ~connected'
              /\ link' = link
        /\ (Calls_send_command_Disconnected /\ listening)
           => /\ connected'
              /\ link' = "up"
              /\ cpc' = "send"
              /\ cur'.connects = 1 ]_vars

C24_Witness ==
    \E i \in DOMAIN calls :
        /\ i < Len(calls)
        /\ calls[i].op = "send_command"
        /\ calls[i].wasConnected
        /\ calls[i].transport \in { "send_raised", "eof" }
        /\ calls[i].status = "error"
        /\ ~calls[i].connectedAfter
        /\ calls[i + 1].op = "send_command"
        /\ calls[i + 1].connects = 1
        /\ calls[i + 1].connectOk
        /\ calls[i + 1].status = "success"

-----------------------------------------------------------------------------
(* Properties of the threads that use the history and the error slot *)

(* C25: command_history and last_error are read and written only by the    *)
(* server worker; the main thread, running the operators of the panel,     *)
(* never touches them.                                                     *)
C25_WorkerOwnsHistory == threads.by # "main"

(* C28: once clear_command_history has completed, the history holds only   *)
(* entries whose insertion began after the clear: it is never longer than  *)
(* the number of insertions begun since the clear, so no entry from before *)
(* the clear is brought back by the truncation of a concurrent insertion.  *)
C28_ClearIsNotUndone ==
    threads.cleared => Len(command_history) <= threads.begun

(* every execution of code that mutates the host's state ran on the main   *)
(* thread                                                                  *)
ExecutedOnMain ==
    \A i \in DOMAIN threads.executed : threads.executed[i].thread = "main"

(* the Response of a call carries the result of the code of that call *)
OwnResult ==
    \A i \in DOMAIN threads.returned :
        threads.returned[i].resp = Success(ResultOf(threads.returned[i].code))

(* C26: every execution that mutates the host application's state runs on  *)
(* the main thread, and the Response a call of handle_execute_blender_code *)
(* returns carries the result of the code of that same call, never the     *)
(* result of another invocation.                                           *)
C26_MainContextHandoff == ExecutedOnMain /\ OwnResult

(* stop_server has returned and start_server was not called since *)
StoppedSince ==
    /\ stops # << >>
    /\ stops[Len(stops)].done
    /\ stops[Len(stops)].startsBefore = Len(starts)

(* C27: once stop_server has returned, is_server_running is false and      *)
(* stays false until the next call of start_server, in every interleaving  *)
(* with the start-up of the worker thread.                                 *)
C27_StopIsNotOverridden ==
    [][ /\ (spc = "join" /\ spc' = "idle") => ~is_server_running'
        /\ (StoppedSince /\ spc = "idle" /\ Len(starts') = Len(starts))
           => ~is_server_running' ]_vars

-----------------------------------------------------------------------------
(* Properties of the error slot and the client socket of the server loop *)

(* the fixed markers save_error is given when no type names the failure *)
ErrorMarkers ==
    { "unknown", "json_error", "unknown_command", "socket_error",
      "socket_accept" }

(* the step records last_error for the message of the current iteration *)
RecordsError ==
    /\ pc \in { "handle", "send" }
    /\ cycles' # << >>
    /\ \/ last_error' # last_error
       \/ pc' \in { "send_error", "send_json_error" }

(* C29: whenever the server loop records last_error for a failed message,  *)
(* last_error.command is the type of that message, or a fixed marker when  *)
(* no type was decoded; it never names the type of an earlier command.     *)
C29_LastErrorNamesFailedMessage ==
    [][ RecordsError
          => LET own == cycles'[Len(cycles')].type IN
             last_error'.command \in
                 (IF own = "none" THEN { } ELSE { own }) \cup ErrorMarkers ]_vars

(* C30: whenever the worker is in Listening (at accept) or Stopped, the     *)
(* global client_socket is None, the socket of the client served before    *)
(* having been closed; client_socket is not None only while the worker is  *)
(* in Serving.                                                             *)
C30_ClientSocketOnlyWhileServing ==
    /\ pc \in { "accept", "done" } => client_socket = "None"
    /\ client_socket # "None"
          => pc \in { "recv", "handle", "send", "send_json_error", "send_error",
                      "close" }

=============================================================================
